---- MODULE Spec2Model ----
(***************************************************************************)
(* Model of the attachment upload pipeline of the API server               *)
(* (apps/api/src/lib/attachments.ts): the in-process ticket map, the       *)
(* periodic sweeper, createUpload and the asynchronous receiveUpload, the  *)
(* attachment rows of the metadata store and the files under the storage   *)
(* root.  One step of the model is one run-to-completion section of the    *)
(* JavaScript code between two awaits.                                     *)
(*                                                                         *)
(* Strings are sequences of characters; a character is a TLA+ string and   *)
(* the random hex identifiers count as one character.  A nullable value is *)
(* the empty sequence (null) or a one-element sequence.                    *)
(***************************************************************************)
EXTENDS Integers, Sequences, FiniteSets, TLC

\* ------------------------------------------------------------------ bounds

\* createUpload calls in a behaviour
MaxCreates == 1
\* receiveUpload calls in a behaviour
MaxCalls == 2
\* the configured ATTACHMENT_MAX_BYTES (any positive number is accepted)
ConfiguredMax == 2
\* longest chunk the inbound stream delivers
MaxChunkLen == 2

\* ------------------------------------------------------------ nullable values

None == <<>>
Some(x) == <<x>>
IsNull(o) == o = <<>>
Val(o) == o[1]
\* a ?? b
Coalesce(a, b) == IF IsNull(a) THEN b ELSE a

\* ------------------------------------------------------------------ constants

DEFAULT_TTL_MS == 5 * 60 * 1000
DEFAULT_MAX_BYTES == 25 * 1024 * 1024

\* constructor: Number.isFinite(configuredMax) && configuredMax > 0 ? floor : 25 MiB
maxAttachmentBytes == IF ConfiguredMax > 0 THEN ConfiguredMax ELSE DEFAULT_MAX_BYTES

\* the instants the clock visits: around the issue times and the deadlines
Instants == {0, DEFAULT_TTL_MS, DEFAULT_TTL_MS + 1}

\* ------------------------------------------------------------------- strings

\* s.split(sep): the pieces of s between the occurrences of the character sep
RECURSIVE SplitAcc(_, _, _)
SplitAcc(s, sep, cur) ==
  IF s = <<>> THEN <<cur>>
  ELSE IF Head(s) = sep THEN <<cur>> \o SplitAcc(Tail(s), sep, <<>>)
  ELSE SplitAcc(Tail(s), sep, Append(cur, Head(s)))
Split(s, sep) == SplitAcc(s, sep, <<>>)

\* parts.join(sep)
RECURSIVE Join(_, _)
Join(parts, sep) ==
  IF parts = <<>> THEN <<>>
  ELSE IF Len(parts) = 1 THEN parts[1]
  ELSE parts[1] \o <<sep>> \o Join(Tail(parts), sep)

\* array.filter(keep)
FilterSeq(s, Keep(_)) == SelectSeq(s, Keep)

Whitespace == {" ", "\t"}
SafeChars ==
  {"a", "b", "s", "1", "2", "A", "Z", "0", "9", ".", "_", "-", "P", "D", "F",
   "m", "y", "r", "e", "p", "o", "t"}

\* String.prototype.trim
RECURSIVE TrimLeft(_)
TrimLeft(s) ==
  IF s # <<>> /\ Head(s) \in Whitespace THEN TrimLeft(Tail(s)) ELSE s
RECURSIVE TrimRight(_)
TrimRight(s) ==
  IF s # <<>> /\ s[Len(s)] \in Whitespace
  THEN TrimRight(SubSeq(s, 1, Len(s) - 1)) ELSE s
Trim(s) == TrimRight(TrimLeft(s))

\* s.replace(/\s+/g, '-')
RECURSIVE CollapseWs(_, _)
CollapseWs(s, inRun) ==
  IF s = <<>> THEN <<>>
  ELSE IF Head(s) \in Whitespace
       THEN (IF inRun THEN <<>> ELSE <<"-">>) \o CollapseWs(Tail(s), TRUE)
       ELSE <<Head(s)>> \o CollapseWs(Tail(s), FALSE)

IsSafeChar(ch) == ch \in SafeChars

sanitizeFilename(filename) ==
  LET trimmed == CollapseWs(Trim(filename), FALSE)
      safe == FilterSeq(trimmed, IsSafeChar)
  IN  IF safe = <<>> THEN <<"attachment">> ELSE safe

\* path.sep of a POSIX host
PathSep == "/"

ensurePosixKey(key) == Join(Split(key, PathSep), "/")

\* path.posix.normalize on the segments of a relative path
RECURSIVE NormalizeSegs(_, _)
NormalizeSegs(segs, acc) ==
  IF segs = <<>> THEN acc
  ELSE LET h == Head(segs) IN
       IF h = <<>> \/ h = <<".">> THEN NormalizeSegs(Tail(segs), acc)
       ELSE IF h = <<".", ".">>
            THEN IF acc # <<>> /\ acc[Len(acc)] # <<".", ".">>
                 THEN NormalizeSegs(Tail(segs), SubSeq(acc, 1, Len(acc) - 1))
                 ELSE NormalizeSegs(Tail(segs), Append(acc, h))
            ELSE NormalizeSegs(Tail(segs), Append(acc, h))

IsNonEmpty(s) == s # <<>>

\* mutant: the arguments are joined and not normalized
PosixJoin_NoNormalize(args) == Join(FilterSeq(args, IsNonEmpty), "/")

\* path.posix.join(...args): the non-empty arguments joined by "/", normalized
\* ("." when nothing is left; a leading "/" is kept)
PosixJoin(args) ==
  LET joined == Join(FilterSeq(args, IsNonEmpty), "/")
      abs == joined # <<>> /\ Head(joined) = "/"
      segs == NormalizeSegs(Split(joined, "/"), <<>>)
      segsAbs == FilterSeq(segs, LAMBDA g : g # <<".", ".">>)
      body == Join(IF abs THEN segsAbs ELSE segs, "/")
  IN  IF joined = <<>> THEN <<".">>
      ELSE IF abs THEN <<"/">> \o body
      ELSE IF body = <<>> THEN <<".">>
      ELSE body

IsStorageSegment(g) == g # <<>> /\ g # <<".", ".">>

IsNotDot(g) == g # <<".">>

\* buildStoragePath: the segments of the path below the storage root; path.join
\* drops the "." segments the filter lets through
buildStoragePath(storageKey) ==
  LET safeKey == FilterSeq(Split(ensurePosixKey(storageKey), "/"), IsStorageSegment)
  IN  FilterSeq(safeKey, IsNotDot)

\* path.dirname of a path below the storage root
Dirname(p) == IF p = <<>> THEN <<>> ELSE SubSeq(p, 1, Len(p) - 1)

\* mutant: the bytes are written at the final path itself
TempPathOf_Final(p, rnd) == p

\* `${storagePath}.upload-${random}`
TempPathOf(p, rnd) ==
  IF p = <<>> THEN <<<<".upload-", rnd>>>>
  ELSE SubSeq(p, 1, Len(p) - 1) \o <<p[Len(p)] \o <<".upload-", rnd>>>>

\* ---------------------------------------------------------------- the hash

\* createHash('sha256'): the state of the hash is the bytes absorbed so far and
\* the digest is a collision-free function of them
HashInit == <<>>
\* mutant: the hash absorbs each chunk in front of the earlier ones
HashUpdate_Prepend(h, buffer) == buffer \o h
HashUpdate(h, buffer) == h \o buffer
HashDigestHex(h) == <<"sha256">> \o h

\* ------------------------------------------------------------------- inputs

\* the random hex strings: randomBytes(12) names the attachment of the k-th
\* createUpload, randomBytes(24) its token, randomBytes(6) the temporary file of
\* the c-th receiveUpload; each draw is fresh
HexNames == <<"h1", "h2", "h3", "h4", "h5", "h6">>
AttachmentIdOf(k) == <<HexNames[k]>>
TokenOf(k) == k
RandomSuffixOf(c) == HexNames[c]

SessionIds == {<<"s", "1">>}
FileNames == {None, Some(<<" ", "a", " ", " ", "b", "/", " ">>)}
MimeTypes == {None, Some("text/plain")}
ContentTypes == {None, Some("image/png")}
DeclaredSizes == {None} \cup {Some(n) : n \in 0..(maxAttachmentBytes - 1)}
Bytes == {0, 1}
Chunks == UNION {[1..n -> Bytes] : n \in 1..MaxChunkLen}

\* a JavaScript number: finite with an integer value, or NaN / Infinity
Finite(n) == [finite |-> TRUE, n |-> n]
NonFinite == [finite |-> FALSE, n |-> 0]
ContentLengths ==
  {None, Some(NonFinite)} \cup {Some(Finite(n)) : n \in -1..(maxAttachmentBytes + 1)}

\* -------------------------------------------------------------------- state

VARIABLES
  now,          \* Date.now()
  tokens,       \* this.tokens: token -> [attachmentId, expiresAt]
  attachments,  \* the attachment rows of the metadata store, by id
  dirs,         \* the directories below (and including) the storage root
  files,        \* the regular files below the storage root: path -> bytes
  creates,      \* the createUpload calls
  calls,        \* the receiveUpload calls
  opens,        \* the openAttachmentPath calls
  rateBuckets,  \* the rate-limit Map in insertion order: [key, count, resetAt]
  lastRateBucketSweep,
  admitted      \* per client key: the start of its current window and the
                \* requests the hook has let through in it

rateVars == <<rateBuckets, lastRateBucketSweep, admitted>>
vars == <<now, tokens, attachments, dirs, files, creates, calls, opens,
          rateBuckets, lastRateBucketSweep, admitted>>

CreateIds == 1..MaxCreates
CallIds == 1..MaxCalls

\* f with key k bound to v / with key k removed
MapSet(f, k, v) == [x \in DOMAIN f \cup {k} |-> IF x = k THEN v ELSE f[x]]
MapDelete(f, k) == [x \in DOMAIN f \ {k} |-> f[x]]

IdleCreate ==
  [pc |-> "idle", attachmentId |-> None, filename |-> None, size |-> None,
   expiresAt |-> None]

IdleCall ==
  [pc |-> "idle", token |-> 0, pastExpiry |-> FALSE, sawEntry |-> FALSE,
   afterFailure |-> FALSE,
   entry |-> None, attachment |-> None,
   contentType |-> None, contentLength |-> None,
   storagePath |-> <<>>, tempPath |-> <<>>,
   written |-> 0, hash |-> HashInit, delivered |-> <<>>,
   streamDestroyed |-> FALSE, fileStreamOpen |-> FALSE,
   streamEnded |-> FALSE, renamed |-> FALSE,
   error |-> None, result |-> None]

\* opens.results: what the openAttachmentPath calls returned or threw, in
\* order, since the last step of any other operation; opens.current: the call
\* that awaits stat, if any.  clean: no step of another operation has happened
\* since the call began.
IdleOpens == [results |-> <<>>, current |-> None]

\* a step of another operation is taken
Interleaved(o) ==
  [results |-> <<>>,
   current |-> IF IsNull(o.current)
               THEN None
               ELSE Some([Val(o.current) EXCEPT !.clean = FALSE])]

Init ==
  /\ now = 0
  /\ tokens = <<>>
  /\ attachments = <<>>
  /\ dirs = {}
  /\ files = <<>>
  /\ creates = [k \in CreateIds |-> IdleCreate]
  /\ calls = [c \in CallIds |-> IdleCall]
  /\ opens = IdleOpens
  /\ rateBuckets = <<>>
  /\ lastRateBucketSweep = 0
  /\ admitted = <<>>

\* ------------------------------------------------------------- the file system

\* the proper prefixes of p and p itself
Prefixes(p) == {SubSeq(p, 1, n) : n \in 0..Len(p)}

\* mkdir(p, {recursive: true}) succeeds unless a prefix of p is a regular file
MkdirBlocked(p) == \E q \in Prefixes(p) : q \in DOMAIN files

\* rm(p, {force: true}): removes a regular file, does nothing when p is absent
\* and fails (the error is swallowed by the callers) when p is a directory
RmForce(fs, p) == IF p \in DOMAIN fs THEN MapDelete(fs, p) ELSE fs

\* rename(from, to) replaces a regular file or creates the entry; it fails when
\* `to` is a directory or its parent directory is missing
RenameBlocked(from, to) ==
  \/ from \notin DOMAIN files
  \/ to \in dirs
  \/ Dirname(to) \notin dirs

\* -------------------------------------------------------------- the ticket map

\* mutant: every ticket is dropped, expired or not
pruneExpiredTokens_All(toks, t) == [k \in {} |-> toks[k]]

\* mutant: an expired ticket is given a new deadline instead of being dropped
pruneExpiredTokens_Renew(toks, t) ==
  [k \in DOMAIN toks |->
     IF toks[k].expiresAt <= t
     THEN [toks[k] EXCEPT !.expiresAt = t + DEFAULT_TTL_MS]
     ELSE toks[k]]

\* mutant: the scan stops after the first expired ticket it drops
pruneExpiredTokens_First(toks, t) ==
  LET expired == {x \in DOMAIN toks : toks[x].expiresAt <= t}
  IN  IF expired = {} THEN toks
      ELSE MapDelete(toks, CHOOSE x \in expired : \A y \in expired : x <= y)

\* mutant: nothing is dropped
pruneExpiredTokens_Keep(toks, t) == toks

\* pruneExpiredTokens
pruneExpiredTokens(toks, t) ==
  [k \in {x \in DOMAIN toks : ~(toks[x].expiresAt <= t)} |-> toks[k]]

\* mutant: a valid ticket is returned and left in the map
consumeToken_NoDelete(toks, token, t) ==
  IF token \notin DOMAIN toks
  THEN [entry |-> None, tokens |-> toks]
  ELSE IF toks[token].expiresAt < t
  THEN [entry |-> None, tokens |-> MapDelete(toks, token)]
  ELSE [entry |-> Some(toks[token]), tokens |-> toks]

\* mutant: the deadline of the ticket is not looked at
consumeToken_IgnoresExpiry(toks, token, t) ==
  IF token \notin DOMAIN toks
  THEN [entry |-> None, tokens |-> toks]
  ELSE [entry |-> Some(toks[token]), tokens |-> MapDelete(toks, token)]

\* consumeToken: the entry returned (null when absent or expired) and the map left
consumeToken(toks, token, t) ==
  IF token \notin DOMAIN toks
  THEN [entry |-> None, tokens |-> toks]
  ELSE IF toks[token].expiresAt < t
  THEN [entry |-> None, tokens |-> MapDelete(toks, token)]
  ELSE [entry |-> Some(toks[token]), tokens |-> MapDelete(toks, token)]

\* the setInterval callback of the constructor
Sweep ==
  /\ tokens' = pruneExpiredTokens(tokens, now)
  /\ tokens' # tokens
  /\ UNCHANGED <<now, attachments, dirs, files, creates, calls>>
  /\ opens' = Interleaved(opens)
  /\ UNCHANGED rateVars

\* the clock moves on
Tick ==
  /\ \E t \in Instants : t > now /\ now' = t
  /\ UNCHANGED <<tokens, attachments, dirs, files, creates, calls>>
  /\ opens' = Interleaved(opens)
  /\ UNCHANGED rateVars

\* ------------------------------------------------------------- createUpload

\* the row createUpload hands to prisma.attachment.create
NewAttachment(k, sessionId, filename, mimeType, size) ==
  LET cleanName == IF IsNull(filename) \/ Val(filename) = <<>>
                   THEN <<"attachment">>
                   ELSE sanitizeFilename(Val(filename))
      attachmentId == AttachmentIdOf(k)
      storageKey == ensurePosixKey(PosixJoin(<<sessionId, attachmentId, cleanName>>))
  IN  [id |-> attachmentId,
       sessionId |-> sessionId,
       url |-> <<"attachment://">> \o storageKey,
       storageKey |-> storageKey,
       filename |-> cleanName,
       mimeType |-> Coalesce(mimeType, None),
       size |-> Coalesce(size, None),
       checksum |-> None]

\* mutant: every ticket is bound to the first row
NewTicket_FirstRow(attachmentId, t) ==
  [attachmentId |-> AttachmentIdOf(1), expiresAt |-> t + DEFAULT_TTL_MS]

\* the ticket createUpload stores for the row it created
NewTicket(attachmentId, t) ==
  [attachmentId |-> attachmentId, expiresAt |-> t + DEFAULT_TTL_MS]

\* createUpload up to the completion of prisma.attachment.create: ensureBaseDir,
\* pruneExpiredTokens, the new row.  mkdir or the metadata store may fail.
CreateUploadBegin(k, sessionId, filename, mimeType, size) ==
  /\ creates[k].pc = "idle"
  /\ IF k = 1 THEN TRUE ELSE creates[k - 1].pc # "idle"
  /\ \E outcome \in {"ok", "mkdir-failed", "create-failed"} :
       IF outcome = "mkdir-failed" \/ MkdirBlocked(<<>>)
       THEN /\ creates' = [creates EXCEPT ![k].pc = "failed"]
            /\ UNCHANGED <<tokens, attachments, dirs>>
       ELSE /\ dirs' = dirs \cup {<<>>}
            /\ tokens' = pruneExpiredTokens(tokens, now)
            /\ IF outcome = "create-failed"
               THEN /\ creates' = [creates EXCEPT ![k].pc = "failed"]
                    /\ UNCHANGED attachments
               ELSE LET row == NewAttachment(k, sessionId, filename, mimeType, size)
                    IN  /\ attachments' = MapSet(attachments, row.id, row)
                        /\ creates' = [creates EXCEPT ![k].pc = "created",
                                                      ![k].attachmentId = Some(row.id),
                                                      ![k].filename = filename,
                                                      ![k].size = size]
  /\ UNCHANGED <<now, files, calls>>
  /\ opens' = Interleaved(opens)
  /\ UNCHANGED rateVars

\* createUpload after the await: the token is stored and the handle returned
CreateUploadFinish(k) ==
  /\ creates[k].pc = "created"
  /\ tokens' = MapSet(tokens, TokenOf(k), NewTicket(Val(creates[k].attachmentId), now))
  /\ creates' = [creates EXCEPT ![k].pc = "done",
                                ![k].expiresAt = Some(now + DEFAULT_TTL_MS)]
  /\ UNCHANGED <<now, attachments, dirs, files, calls>>
  /\ opens' = Interleaved(opens)
  /\ UNCHANGED rateVars

\* ------------------------------------------------------------ receiveUpload

\* mutant: the declared size of the row is never used as a bound
expectedSizeOf_Unbounded(attachment) == None

\* expectedSize: the declared size of the row when it is a positive number
expectedSizeOf(attachment) ==
  IF ~IsNull(attachment.size) /\ Val(attachment.size) > 0
  THEN attachment.size ELSE None

\* mutant: the content length is not compared with the configured maximum
sizePreCheck_NoMax(contentLength, expectedSize) ==
  IF IsNull(contentLength) THEN None
  ELSE LET len == Val(contentLength) IN
       IF ~len.finite \/ len.n < 0 THEN Some("invalid-content-length")
       ELSE IF ~IsNull(expectedSize) /\ len.n > Val(expectedSize)
            THEN Some("attachment-size-exceeded")
       ELSE None

\* the checks on contentLength before any byte is read: the error thrown, or null
sizePreCheck(contentLength, expectedSize) ==
  IF IsNull(contentLength) THEN None
  ELSE LET len == Val(contentLength) IN
       IF ~len.finite \/ len.n < 0 THEN Some("invalid-content-length")
       ELSE IF len.n > maxAttachmentBytes THEN Some("attachment-too-large")
       ELSE IF ~IsNull(expectedSize) /\ len.n > Val(expectedSize)
            THEN Some("attachment-size-exceeded")
       ELSE None

\* mutant: the running byte count is compared with the declared size only
sizeViolation_NoMax(written, expectedSize) ==
  IF ~IsNull(expectedSize) /\ written > Val(expectedSize)
  THEN Some("attachment-size-exceeded")
  ELSE None

\* the checks on the running byte count in the read loop: the error thrown, or null
sizeViolation(written, expectedSize) ==
  IF written > maxAttachmentBytes THEN Some("attachment-too-large")
  ELSE IF ~IsNull(expectedSize) /\ written > Val(expectedSize)
       THEN Some("attachment-size-exceeded")
  ELSE None

\* mutant: the update leaves size out
CommittedRow_NoSize(attachment, checksum, size, storagePath, contentType) ==
  [attachment EXCEPT !.checksum = Some(checksum),
                     !.url = <<"file://">> \o Join(storagePath, "/"),
                     !.mimeType = Coalesce(contentType, attachment.mimeType)]

\* mutant: the content type of the request replaces the mime type even when absent
CommittedRow_NoFallback(attachment, checksum, size, storagePath, contentType) ==
  [attachment EXCEPT !.checksum = Some(checksum),
                     !.size = Some(size),
                     !.url = <<"file://">> \o Join(storagePath, "/"),
                     !.mimeType = contentType]

\* the data of the prisma.attachment.update of a committed upload
CommittedRow(attachment, checksum, size, storagePath, contentType) ==
  [attachment EXCEPT !.checksum = Some(checksum),
                     !.size = Some(size),
                     !.url = <<"file://">> \o Join(storagePath, "/"),
                     !.mimeType = Coalesce(contentType, attachment.mimeType)]

\* a call throws: nothing is cleaned up on this path
Throw(c, err) == [calls[c] EXCEPT !.pc = "failed", !.error = Some(err)]

\* the synchronous part of cleanup(): both streams are destroyed, rm is pending
StartCleanup(call, err) ==
  [call EXCEPT !.pc = "cleanup", !.error = Some(err),
               !.streamDestroyed = TRUE, !.fileStreamOpen = FALSE]

\* whether the clock is past the expiresAt of the handle createUpload returned
\* for this token
PastExpiry(token) ==
  /\ creates[token].pc = "done"
  /\ now > Val(creates[token].expiresAt)

\* whether an earlier call resolved this token and has failed since
AfterFailure(token) ==
  \E d \in CallIds : /\ calls[d].token = token
                     /\ ~IsNull(calls[d].entry)
                     /\ calls[d].pc = "failed"

\* mutant: a valid ticket stays in the map until the upload has succeeded
ReceiveUpload_ConsumeOnSuccess(c, token, contentType, contentLength) ==
  /\ calls[c].pc = "idle"
  /\ IF c = 1 THEN TRUE ELSE calls[c - 1].pc # "idle"
  /\ LET r == consumeToken(tokens, token, now)
         started == [calls[c] EXCEPT !.token = token,
                                     !.pastExpiry = PastExpiry(token),
                                     !.afterFailure = AfterFailure(token),
                                     !.sawEntry = token \in DOMAIN tokens,
                                     !.entry = r.entry]
     IN  /\ tokens' = IF IsNull(r.entry) THEN r.tokens ELSE tokens
         /\ calls' = [calls EXCEPT ![c] =
                        IF IsNull(r.entry)
                        THEN [started EXCEPT !.pc = "failed",
                                             !.error = Some("invalid-upload-token")]
                        ELSE [started EXCEPT !.pc = "lookup",
                                             !.contentType = contentType,
                                             !.contentLength = contentLength]]
  /\ UNCHANGED <<now, attachments, dirs, files, creates>>
  /\ opens' = Interleaved(opens)
  /\ UNCHANGED rateVars

\* receiveUpload is called: consumeToken decides at once
ReceiveUpload(c, token, contentType, contentLength) ==
  /\ calls[c].pc = "idle"
  /\ IF c = 1 THEN TRUE ELSE calls[c - 1].pc # "idle"
  /\ LET r == consumeToken(tokens, token, now)
         started == [calls[c] EXCEPT !.token = token,
                                     !.pastExpiry = PastExpiry(token),
                                     !.afterFailure = AfterFailure(token),
                                     !.sawEntry = token \in DOMAIN tokens,
                                     !.entry = r.entry]
     IN  /\ tokens' = r.tokens
         /\ calls' = [calls EXCEPT ![c] =
                        IF IsNull(r.entry)
                        THEN [started EXCEPT !.pc = "failed",
                                             !.error = Some("invalid-upload-token")]
                        ELSE [started EXCEPT !.pc = "lookup",
                                             !.contentType = contentType,
                                             !.contentLength = contentLength]]
  /\ UNCHANGED <<now, attachments, dirs, files, creates>>
  /\ opens' = Interleaved(opens)
  /\ UNCHANGED rateVars

\* prisma.attachment.findUnique answers; the size pre-check and buildStoragePath
\* follow in the same turn
RecvLookup(c) ==
  /\ calls[c].pc = "lookup"
  /\ \E storeOk \in BOOLEAN :
       LET id == Val(calls[c].entry).attachmentId IN
       IF ~storeOk THEN calls' = [calls EXCEPT ![c] = Throw(c, "metadata-store-error")]
       ELSE IF id \notin DOMAIN attachments
       THEN calls' = [calls EXCEPT ![c] = Throw(c, "attachment-not-found")]
       ELSE LET attachment == attachments[id]
                pre == sizePreCheck(calls[c].contentLength, expectedSizeOf(attachment))
                found == [calls[c] EXCEPT !.attachment = Some(attachment)]
            IN  IF ~IsNull(pre)
                THEN calls' = [calls EXCEPT ![c] =
                                 [found EXCEPT !.pc = "failed", !.error = pre,
                                               !.streamDestroyed = TRUE]]
                ELSE calls' = [calls EXCEPT ![c] =
                                 [found EXCEPT !.pc = "mkdir",
                                               !.storagePath =
                                                 buildStoragePath(attachment.storageKey)]]
  /\ UNCHANGED <<now, tokens, attachments, dirs, files, creates>>
  /\ opens' = Interleaved(opens)
  /\ UNCHANGED rateVars

\* mkdir(dirname(storagePath)) completes; the temporary file is opened for writing
RecvOpen(c) ==
  /\ calls[c].pc = "mkdir"
  /\ \E mkdirOk \in BOOLEAN :
       LET dir == Dirname(calls[c].storagePath)
           tempPath == TempPathOf(calls[c].storagePath, RandomSuffixOf(c))
       IN  IF ~mkdirOk \/ MkdirBlocked(dir)
           THEN /\ calls' = [calls EXCEPT ![c] = Throw(c, "mkdir-error")]
                /\ UNCHANGED <<dirs, files>>
           ELSE /\ dirs' = dirs \cup Prefixes(dir)
                /\ files' = MapSet(files, tempPath, <<>>)
                /\ calls' = [calls EXCEPT ![c].pc = "stream",
                                          ![c].tempPath = tempPath,
                                          ![c].fileStreamOpen = TRUE]
  /\ UNCHANGED <<now, tokens, attachments, creates>>
  /\ opens' = Interleaved(opens)
  /\ UNCHANGED rateVars

\* mutant: the chunk is hashed and written before the byte count is checked
RecvChunk_WriteFirst(c, chunk) ==
  /\ calls[c].pc = "stream"
  /\ LET call == calls[c]
         written == call.written + Len(chunk)
         violation == sizeViolation(written, expectedSizeOf(Val(call.attachment)))
         counted == [call EXCEPT !.written = written,
                                 !.delivered = call.delivered \o chunk,
                                 !.hash = HashUpdate(call.hash, chunk)]
     IN  /\ files' = [files EXCEPT ![call.tempPath] = files[call.tempPath] \o chunk]
         /\ calls' = [calls EXCEPT ![c] =
                        IF ~IsNull(violation)
                        THEN StartCleanup(counted, Val(violation))
                        ELSE counted]
  /\ UNCHANGED <<now, tokens, attachments, dirs, creates>>
  /\ opens' = Interleaved(opens)
  /\ UNCHANGED rateVars

\* one turn of the for-await loop: the stream yields a chunk
RecvChunk(c, chunk) ==
  /\ calls[c].pc = "stream"
  /\ LET call == calls[c]
         written == call.written + Len(chunk)
         violation == sizeViolation(written, expectedSizeOf(Val(call.attachment)))
         counted == [call EXCEPT !.written = written,
                                 !.delivered = call.delivered \o chunk]
     IN  IF ~IsNull(violation)
         THEN /\ calls' = [calls EXCEPT ![c] = StartCleanup(counted, Val(violation))]
              /\ UNCHANGED files
         ELSE /\ calls' = [calls EXCEPT ![c] =
                             [counted EXCEPT !.hash = HashUpdate(call.hash, chunk)]]
              /\ files' = [files EXCEPT ![call.tempPath] = files[call.tempPath] \o chunk]
  /\ UNCHANGED <<now, tokens, attachments, dirs, creates>>
  /\ opens' = Interleaved(opens)
  /\ UNCHANGED rateVars

\* the inbound stream fails (the client disconnects): the loop throws
RecvStreamError(c) ==
  /\ calls[c].pc = "stream"
  /\ calls' = [calls EXCEPT ![c] = StartCleanup(calls[c], "stream-error")]
  /\ UNCHANGED <<now, tokens, attachments, dirs, files, creates>>
  /\ opens' = Interleaved(opens)
  /\ UNCHANGED rateVars

\* the inbound stream ends: fileStream.end is called
RecvStreamEnd(c) ==
  /\ calls[c].pc = "stream"
  /\ calls' = [calls EXCEPT ![c].pc = "close", ![c].streamEnded = TRUE]
  /\ UNCHANGED <<now, tokens, attachments, dirs, files, creates>>
  /\ opens' = Interleaved(opens)
  /\ UNCHANGED rateVars

\* fileStream.end calls back, with or without an error
RecvClose(c) ==
  /\ calls[c].pc = "close"
  /\ \E closeOk \in BOOLEAN :
       calls' = [calls EXCEPT ![c] =
                   IF closeOk
                   THEN [calls[c] EXCEPT !.pc = "rmfinal", !.fileStreamOpen = FALSE]
                   ELSE StartCleanup(calls[c], "close-error")]
  /\ UNCHANGED <<now, tokens, attachments, dirs, files, creates>>
  /\ opens' = Interleaved(opens)
  /\ UNCHANGED rateVars

\* rm(storagePath, {force: true}) completes
RecvRmFinal(c) ==
  /\ calls[c].pc = "rmfinal"
  /\ files' = RmForce(files, calls[c].storagePath)
  /\ calls' = [calls EXCEPT ![c].pc = "rename"]
  /\ UNCHANGED <<now, tokens, attachments, dirs, creates>>
  /\ opens' = Interleaved(opens)
  /\ UNCHANGED rateVars

\* rename(tempPath, storagePath) completes or fails
RecvRename(c) ==
  /\ calls[c].pc = "rename"
  /\ \E renameOk \in BOOLEAN :
       LET call == calls[c] IN
       IF ~renameOk \/ RenameBlocked(call.tempPath, call.storagePath)
       THEN /\ calls' = [calls EXCEPT ![c] = StartCleanup(call, "rename-error")]
            /\ UNCHANGED files
       ELSE /\ files' = MapSet(MapDelete(files, call.tempPath),
                               call.storagePath, files[call.tempPath])
            /\ calls' = [calls EXCEPT ![c].pc = "persist", ![c].renamed = TRUE]
  /\ UNCHANGED <<now, tokens, attachments, dirs, creates>>
  /\ opens' = Interleaved(opens)
  /\ UNCHANGED rateVars

\* mutant: the checksum is written in an update of its own that a failure of
\* the second update does not undo
RecvPersist_ChecksumFirst(c) ==
  /\ calls[c].pc = "persist"
  /\ \E storeOk \in BOOLEAN :
       LET call == calls[c]
           attachment == Val(call.attachment)
           updated == CommittedRow(attachments[attachment.id],
                                   HashDigestHex(call.hash), call.written,
                                   call.storagePath, call.contentType)
       IN  IF storeOk
           THEN /\ attachments' = [attachments EXCEPT ![attachment.id] = updated]
                /\ calls' = [calls EXCEPT ![c].pc = "done",
                                          ![c].result = Some(updated)]
           ELSE /\ attachments' =
                     [attachments EXCEPT ![attachment.id].checksum = updated.checksum]
                /\ calls' = [calls EXCEPT ![c] = Throw(c, "metadata-store-error")]
  /\ UNCHANGED <<now, tokens, dirs, files, creates>>
  /\ opens' = Interleaved(opens)
  /\ UNCHANGED rateVars

\* prisma.attachment.update completes or fails
RecvPersist(c) ==
  /\ calls[c].pc = "persist"
  /\ \E storeOk \in BOOLEAN :
       LET call == calls[c]
           attachment == Val(call.attachment)
       IN  IF ~storeOk \/ attachment.id \notin DOMAIN attachments
           THEN /\ calls' = [calls EXCEPT ![c] = Throw(c, "metadata-store-error")]
                /\ UNCHANGED attachments
           ELSE LET updated == CommittedRow(attachments[attachment.id],
                                            HashDigestHex(call.hash), call.written,
                                            call.storagePath, call.contentType)
                IN  /\ attachments' = [attachments EXCEPT ![attachment.id] = updated]
                    /\ calls' = [calls EXCEPT ![c].pc = "done",
                                              ![c].result = Some(updated)]
  /\ UNCHANGED <<now, tokens, dirs, files, creates>>
  /\ opens' = Interleaved(opens)
  /\ UNCHANGED rateVars

\* mutant: cleanup() destroys the streams and leaves the temporary file
RecvCleanup_NoRm(c) ==
  /\ calls[c].pc = "cleanup"
  /\ calls' = [calls EXCEPT ![c].pc = "failed"]
  /\ UNCHANGED <<now, tokens, attachments, dirs, files, creates>>
  /\ opens' = Interleaved(opens)
  /\ UNCHANGED rateVars

\* the rm of cleanup() completes and the error is rethrown
RecvCleanup(c) ==
  /\ calls[c].pc = "cleanup"
  /\ files' = RmForce(files, calls[c].tempPath)
  /\ calls' = [calls EXCEPT ![c].pc = "failed"]
  /\ UNCHANGED <<now, tokens, attachments, dirs, creates>>
  /\ opens' = Interleaved(opens)
  /\ UNCHANGED rateVars

\* ------------------------------------------------------------ specification

\* One ticket with every input, used within its lifetime: the uploads of the
\* first createUpload, for each filename, mime type, declared size, content
\* type, content length and chunking.
UploadCreateIds == {1}

Next ==
  \/ \E k \in UploadCreateIds, sessionId \in SessionIds, filename \in FileNames,
        mimeType \in MimeTypes, size \in DeclaredSizes :
       CreateUploadBegin(k, sessionId, filename, mimeType, size)
  \/ \E k \in UploadCreateIds : CreateUploadFinish(k)
  \/ \E c \in CallIds, token \in UploadCreateIds, contentType \in ContentTypes,
        contentLength \in ContentLengths :
       ReceiveUpload(c, token, contentType, contentLength)
  \/ \E c \in CallIds : RecvLookup(c)
  \/ \E c \in CallIds : RecvOpen(c)
  \/ \E c \in CallIds, chunk \in Chunks : RecvChunk(c, chunk)
  \/ \E c \in CallIds : RecvStreamError(c)
  \/ \E c \in CallIds : RecvStreamEnd(c)
  \/ \E c \in CallIds : RecvClose(c)
  \/ \E c \in CallIds : RecvRmFinal(c)
  \/ \E c \in CallIds : RecvRename(c)
  \/ \E c \in CallIds : RecvPersist(c)
  \/ \E c \in CallIds : RecvCleanup(c)

Spec == Init /\ [][Next]_vars

\* Every ticket and every call, racing with the sweeper and the clock; the
\* uploads carry one byte value and at most one header.
TicketContentLengths == {None, Some(Finite(maxAttachmentBytes + 1))}
TicketChunks == {<<0>>}

NextTickets ==
  \/ Tick
  \/ Sweep
  \/ \E k \in CreateIds, sessionId \in SessionIds :
       CreateUploadBegin(k, sessionId, None, None, None)
  \/ \E k \in CreateIds : CreateUploadFinish(k)
  \/ \E c \in CallIds, token \in CreateIds, contentLength \in TicketContentLengths :
       ReceiveUpload(c, token, None, contentLength)
  \/ \E c \in CallIds : RecvLookup(c)
  \/ \E c \in CallIds : RecvOpen(c)
  \/ \E c \in CallIds, chunk \in TicketChunks : RecvChunk(c, chunk)
  \/ \E c \in CallIds : RecvStreamError(c)
  \/ \E c \in CallIds : RecvStreamEnd(c)
  \/ \E c \in CallIds : RecvClose(c)
  \/ \E c \in CallIds : RecvRmFinal(c)
  \/ \E c \in CallIds : RecvRename(c)
  \/ \E c \in CallIds : RecvPersist(c)
  \/ \E c \in CallIds : RecvCleanup(c)

SpecTickets == Init /\ [][NextTickets]_vars

\* ------------------------------------------------------- openAttachmentPath
MaxOpens == 2

\* the ids asked for: the id of the first row and an id no row has
OpenTargets == {AttachmentIdOf(1), AttachmentIdOf(Len(HexNames))}

\* stat(p) finds a regular file or a directory
StatFinds(p) == p \in DOMAIN files \/ p \in dirs

OpenThrown(attachmentId, clean, err) ==
  [id |-> attachmentId, clean |-> clean, error |-> Some(err),
   attachment |-> None, storagePath |-> <<>>]

\* openAttachmentPath up to the stat: prisma.attachment.findUnique answers (or
\* fails), buildStoragePath.  One call at a time is modelled: the calls write
\* nothing, so they do not affect one another.
OpenAttachmentPath(attachmentId) ==
  /\ IsNull(opens.current)
  /\ Len(opens.results) < MaxOpens
  /\ \E storeOk \in BOOLEAN :
       IF ~storeOk
       THEN opens' = [opens EXCEPT !.results =
                        Append(@, OpenThrown(attachmentId, TRUE, "metadata-store-error"))]
       ELSE IF attachmentId \notin DOMAIN attachments
       THEN opens' = [opens EXCEPT !.results =
                        Append(@, OpenThrown(attachmentId, TRUE, "attachment-not-found"))]
       ELSE opens' = [opens EXCEPT !.current =
                        Some([id |-> attachmentId, clean |-> TRUE,
                              attachment |-> attachments[attachmentId],
                              storagePath |->
                                buildStoragePath(attachments[attachmentId].storageKey)])]
  /\ UNCHANGED <<now, tokens, attachments, dirs, files, creates, calls>>
  /\ UNCHANGED rateVars

\* mutant: the path is returned without looking at the file system
OpenStat_NoStat ==
  /\ ~IsNull(opens.current)
  /\ LET cur == Val(opens.current)
     IN  opens' = [results |-> Append(opens.results,
                                      [id |-> cur.id, clean |-> cur.clean, error |-> None,
                                       attachment |-> Some(cur.attachment),
                                       storagePath |-> cur.storagePath]),
                   current |-> None]
  /\ UNCHANGED <<now, tokens, attachments, dirs, files, creates, calls>>
  /\ UNCHANGED rateVars

\* stat answers: ENOENT becomes 'attachment-file-missing', any other error is
\* rethrown, success returns the row read and the path
OpenStat ==
  /\ ~IsNull(opens.current)
  /\ \E statOk \in BOOLEAN :
       LET cur == Val(opens.current)
           result ==
             IF ~StatFinds(cur.storagePath)
             THEN OpenThrown(cur.id, cur.clean, "attachment-file-missing")
             ELSE IF ~statOk
             THEN OpenThrown(cur.id, cur.clean, "stat-error")
             ELSE [id |-> cur.id, clean |-> cur.clean, error |-> None,
                   attachment |-> Some(cur.attachment),
                   storagePath |-> cur.storagePath]
       IN  opens' = [results |-> Append(opens.results, result), current |-> None]
  /\ UNCHANGED <<now, tokens, attachments, dirs, files, creates, calls>>
  /\ UNCHANGED rateVars

\* Reading back: one createUpload, one upload and the openAttachmentPath calls.
OpenCallIds == {1}

NextOpen ==
  \/ \E sessionId \in SessionIds : CreateUploadBegin(1, sessionId, None, None, None)
  \/ CreateUploadFinish(1)
  \/ \E c \in OpenCallIds : ReceiveUpload(c, TokenOf(1), None, None)
  \/ \E c \in OpenCallIds : RecvLookup(c)
  \/ \E c \in OpenCallIds : RecvOpen(c)
  \/ \E c \in OpenCallIds, chunk \in TicketChunks : RecvChunk(c, chunk)
  \/ \E c \in OpenCallIds : RecvStreamError(c)
  \/ \E c \in OpenCallIds : RecvStreamEnd(c)
  \/ \E c \in OpenCallIds : RecvClose(c)
  \/ \E c \in OpenCallIds : RecvRmFinal(c)
  \/ \E c \in OpenCallIds : RecvRename(c)
  \/ \E c \in OpenCallIds : RecvPersist(c)
  \/ \E c \in OpenCallIds : RecvCleanup(c)
  \/ \E attachmentId \in OpenTargets : OpenAttachmentPath(attachmentId)
  \/ OpenStat

SpecOpen == Init /\ [][NextOpen]_vars

\* ------------------------------------------- onRequest rate-limit hook (server)
rateLimitWindowMs == 60000
rateLimitMax == 1
rateBucketMaxEntries == 1

\* the client keys: one more than the bucket map is to hold
RateKeys == 1..(rateBucketMaxEntries + 1)

\* the instants of the requests: within the first window, at its end, after it
RateInstants == {0, 1, rateLimitWindowMs, rateLimitWindowMs + 1}

\* the sweep of the expired buckets
SweepBuckets(buckets, t) == SelectSeq(buckets, LAMBDA e : ~(e.resetAt <= t))

\* the first entry, in insertion order, with the smallest resetAt
OldestIndex(buckets) ==
  CHOOSE i \in 1..Len(buckets) :
    /\ \A j \in 1..Len(buckets) : buckets[i].resetAt <= buckets[j].resetAt
    /\ \A j \in 1..(i - 1) : buckets[j].resetAt > buckets[i].resetAt

RemoveAt(buckets, i) ==
  SubSeq(buckets, 1, i - 1) \o SubSeq(buckets, i + 1, Len(buckets))

\* while (rateBuckets.size > rateBucketMaxEntries) delete the oldest bucket
RECURSIVE EvictOldest(_)
EvictOldest(buckets) ==
  IF Len(buckets) > rateBucketMaxEntries
  THEN EvictOldest(RemoveAt(buckets, OldestIndex(buckets)))
  ELSE buckets

\* rateBuckets.get(key): the position of the entry, 0 when there is none
IndexOfKey(buckets, key) ==
  IF \E i \in 1..Len(buckets) : buckets[i].key = key
  THEN CHOOSE i \in 1..Len(buckets) : buckets[i].key = key
  ELSE 0

\* the window of the key at time t, as its requests define it: a window starts
\* at the first request of the key and at its first request after a window ended
WindowOpen(key, t) ==
  key \in DOMAIN admitted /\ t < admitted[key].start + rateLimitWindowMs

\* the hook handles one request (it has no await: one step).  A request under
\* /v1/admin returns at once.  The requests of one key are followed until one
\* more than rateLimitMax of them has been let through or counted in a window.
OnRequest(key, admin) ==
  IF admin
  THEN UNCHANGED vars
  ELSE
    LET swept == IF now - lastRateBucketSweep > rateLimitWindowMs
                 THEN SweepBuckets(rateBuckets, now)
                 ELSE rateBuckets
        evicted == EvictOldest(swept)
        i == IndexOfKey(evicted, key)
        renew == IF i = 0 THEN TRUE ELSE evicted[i].resetAt <= now
        entry == IF renew
                 THEN [key |-> key, count |-> 1, resetAt |-> now + rateLimitWindowMs]
                 ELSE [evicted[i] EXCEPT !.count = @ + 1]
        passed == renew \/ ~(entry.count > rateLimitMax)
        let == IF passed THEN 1 ELSE 0
    IN  /\ entry.count <= rateLimitMax + 1
        /\ WindowOpen(key, now) => admitted[key].count <= rateLimitMax
        /\ rateBuckets' = IF i = 0 THEN Append(evicted, entry)
                                   ELSE [evicted EXCEPT ![i] = entry]
        /\ lastRateBucketSweep' = IF now - lastRateBucketSweep > rateLimitWindowMs
                                  THEN now ELSE lastRateBucketSweep
        /\ admitted' = MapSet(admitted, key,
                              IF WindowOpen(key, now)
                              THEN [admitted[key] EXCEPT !.count = @ + let,
                                                         !.status = IF passed THEN 200 ELSE 429]
                              ELSE [start |-> now, count |-> let,
                                    status |-> IF passed THEN 200 ELSE 429])
        /\ UNCHANGED <<now, tokens, attachments, dirs, files, creates, calls, opens>>

\* time passes between requests
RateTick ==
  /\ \E t \in RateInstants : t > now /\ now' = t
  /\ UNCHANGED <<tokens, attachments, dirs, files, creates, calls, opens>>
  /\ UNCHANGED rateVars

NextRate ==
  \/ RateTick
  \/ \E key \in RateKeys, admin \in BOOLEAN : OnRequest(key, admin)

SpecRate == Init /\ [][NextRate]_vars

\* ------------------------------------ PUT /attachments/upload/:token (route)

\* mutant: the size errors are not told apart from unexpected errors
uploadReply_NoSizeCase(error) ==
  IF IsNull(error) THEN [code |-> 204, body |-> None]
  ELSE IF Val(error) = "invalid-upload-token"
  THEN [code |-> 404, body |-> Some("upload token expired or invalid")]
  ELSE IF Val(error) = "attachment-not-found"
  THEN [code |-> 404, body |-> Some("attachment missing")]
  ELSE IF Val(error) = "invalid-content-length"
  THEN [code |-> 400, body |-> Some("invalid content length")]
  ELSE [code |-> 500, body |-> Some("unable to store attachment")]

\* the reply of the route to the outcome of receiveUpload: error is null when it
\* returned and the message of the Error it threw otherwise
uploadReply(error) ==
  IF IsNull(error) THEN [code |-> 204, body |-> None]
  ELSE LET message == Val(error) IN
       IF message = "invalid-upload-token"
       THEN [code |-> 404, body |-> Some("upload token expired or invalid")]
       ELSE IF message = "attachment-not-found"
       THEN [code |-> 404, body |-> Some("attachment missing")]
       ELSE IF message = "invalid-content-length"
       THEN [code |-> 400, body |-> Some("invalid content length")]
       ELSE IF message = "attachment-too-large" \/ message = "attachment-size-exceeded"
       THEN [code |-> 413, body |-> Some("attachment too large")]
       ELSE [code |-> 500, body |-> Some("unable to store attachment")]

\* Storage keys: several createUpload calls for the sessions that exist, with
\* filenames that are absent, empty, dots, padded, path-like or all illegal.
MaxIssues == 2
IssueIds == 1..MaxIssues

KeySessionIds == {<<"s", "1">>, <<"s", "2">>}
KeyFileNames ==
  {None,
   Some(<<>>),
   Some(<<".">>),
   Some(<<".", ".">>),
   Some(<<" ", " ", "m", "y", " ", "r", "e", "p", "o", "r", "t", ".", "P", "D", "F", " ">>),
   Some(<<".", ".", "/", "b">>),
   Some(<<"/", "$">>),
   Some(<<"a", "\t", " ", "b", "\\", "_">>)}

InitIssue ==
  /\ now = 0
  /\ tokens = <<>>
  /\ attachments = <<>>
  /\ dirs = {}
  /\ files = <<>>
  /\ creates = [k \in IssueIds |-> IdleCreate]
  /\ calls = [c \in CallIds |-> IdleCall]
  /\ opens = IdleOpens
  /\ rateBuckets = <<>>
  /\ lastRateBucketSweep = 0
  /\ admitted = <<>>

NextKeys ==
  \/ \E k \in IssueIds, sessionId \in KeySessionIds, filename \in KeyFileNames :
       CreateUploadBegin(k, sessionId, filename, None, None)
  \/ \E k \in IssueIds : CreateUploadFinish(k)

SpecKeys == InitIssue /\ [][NextKeys]_vars

\* Resolved paths: createUpload called with session ids that are dot segments
\* as well, and filenames that are dots or path-like.
PathSessionIds == {<<"s", "1">>, <<".">>, <<".", ".">>}
PathFileNames ==
  {None, Some(<<".">>), Some(<<".", ".">>), Some(<<".", ".", "/", "b">>)}

NextPaths ==
  \/ \E k \in IssueIds, sessionId \in PathSessionIds, filename \in PathFileNames :
       CreateUploadBegin(k, sessionId, filename, None, None)
  \/ \E k \in IssueIds : CreateUploadFinish(k)

SpecPaths == InitIssue /\ [][NextPaths]_vars

\* Binding: several createUpload calls and two uploads, each with any of the
\* tokens, within the lifetime of the tickets.
BindingCallIds == {1, 2}

NextBinding ==
  \/ \E k \in IssueIds, sessionId \in SessionIds :
       CreateUploadBegin(k, sessionId, None, None, None)
  \/ \E k \in IssueIds : CreateUploadFinish(k)
  \/ \E c \in BindingCallIds, k \in IssueIds : ReceiveUpload(c, TokenOf(k), None, None)
  \/ \E c \in BindingCallIds : RecvLookup(c)
  \/ \E c \in BindingCallIds : RecvOpen(c)
  \/ \E c \in BindingCallIds, chunk \in TicketChunks : RecvChunk(c, chunk)
  \/ \E c \in BindingCallIds : RecvStreamError(c)
  \/ \E c \in BindingCallIds : RecvStreamEnd(c)
  \/ \E c \in BindingCallIds : RecvClose(c)
  \/ \E c \in BindingCallIds : RecvRmFinal(c)
  \/ \E c \in BindingCallIds : RecvRename(c)
  \/ \E c \in BindingCallIds : RecvPersist(c)
  \/ \E c \in BindingCallIds : RecvCleanup(c)

SpecBinding == InitIssue /\ [][NextBinding]_vars

\* Issuance: several createUpload calls, the clock and the sweeper, no upload.
NextIssue ==
  \/ Tick
  \/ Sweep
  \/ \E k \in IssueIds, sessionId \in SessionIds,
        mimeType \in MimeTypes, size \in DeclaredSizes :
       CreateUploadBegin(k, sessionId, None, mimeType, size)
  \/ \E k \in IssueIds : CreateUploadFinish(k)

SpecIssue == InitIssue /\ [][NextIssue]_vars

\* the timer of the constructor keeps firing and time passes
FairIssue == SpecIssue /\ WF_vars(Sweep) /\ WF_vars(Tick)

\* ------------------------------------------------------------------ claims

Started(c) == calls[c].pc # "idle"
Returned(c) == calls[c].pc \in {"done", "failed"}
Resolved(c) == ~IsNull(calls[c].entry)
FailedWith(c, err) == calls[c].pc = "failed" /\ calls[c].error = Some(err)
InvalidTicket(c) == FailedWith(c, "invalid-upload-token")
\* the row bound to the ticket a call resolved, as the metadata store holds it
RowOf(c) == attachments[Val(calls[c].entry).attachmentId]

\* C1: for every token, at most one receiveUpload call passes ticket resolution,
\* and every other call made with that token has failed with
\* 'invalid-upload-token'.
C1_SingleConsumption ==
  \A t \in CreateIds :
    LET with == {c \in CallIds : Started(c) /\ calls[c].token = t}
        passed == {c \in with : Resolved(c)}
    IN  /\ Cardinality(passed) <= 1
        /\ \A c \in with \ passed : InvalidTicket(c)

\* two calls with one token, the second rejected while the first is in flight
C1_Witness ==
  \E c, d \in CallIds :
    /\ c # d
    /\ calls[c].token = calls[d].token
    /\ Resolved(c) /\ ~Returned(c)
    /\ InvalidTicket(d) /\ calls[d].sawEntry = FALSE

\* C2: a call that resolved a ticket has removed it from the map for good: the
\* token is absent while the call runs and after it failed at any later step,
\* and a call made with the token after that failure fails with
\* 'invalid-upload-token'.
C2_ConsumptionUnconditional ==
  \A c \in CallIds :
    Resolved(c) =>
      /\ calls[c].token \notin DOMAIN tokens
      /\ \A d \in CallIds :
           (Started(d) /\ calls[d].token = calls[c].token /\ calls[d].afterFailure)
             => InvalidTicket(d)

\* a call resolved the ticket and failed later on; a call made after that
\* failure with the same token was rejected
C2_Witness ==
  \E c, d \in CallIds :
    /\ Resolved(c) /\ calls[c].pc = "failed"
    /\ calls[d].token = calls[c].token
    /\ calls[d].afterFailure
    /\ InvalidTicket(d)

\* C3: a call made when the clock is past the ticket's expiresAt fails with
\* 'invalid-upload-token', swept or not, and no call resolves a ticket at a
\* time later than its expiresAt.
C3_Expiry ==
  \A c \in CallIds :
    /\ (Started(c) /\ calls[c].pastExpiry) => InvalidTicket(c)
    /\ Resolved(c) => ~calls[c].pastExpiry

\* an expired ticket that the sweeper had not removed yet was refused
C3_Witness ==
  \E c \in CallIds :
    calls[c].pastExpiry /\ calls[c].sawEntry /\ InvalidTicket(c)

\* the calls that committed the row id
Committers(id) ==
  {c \in CallIds : calls[c].pc = "done" /\ Val(calls[c].result).id = id}

\* C4 as stated: checksum and size of every row are both null or both set.
C4_BothNullOrBothSet ==
  \A id \in DOMAIN attachments :
    IsNull(attachments[id].checksum) <=> IsNull(attachments[id].size)

\* C4 amended: a row has a checksum only once an upload committed it, at most
\* one upload ever commits it, and its size is then set as well; until then the
\* checksum is null and size holds what createUpload stored (the declared size or
\* null).
C4_ChecksumImpliesSize ==
  \A k \in CreateIds :
    creates[k].pc \in {"created", "done"} =>
      LET id == Val(creates[k].attachmentId)
          row == attachments[id]
      IN  /\ Cardinality(Committers(id)) <= 1
          /\ IsNull(row.checksum) <=>  Committers(id) = {}
          /\ ~IsNull(row.checksum) => ~IsNull(row.size)
          /\ IsNull(row.checksum) => row.size = creates[k].size

\* a row issued without a declared size was committed
C4_Witness ==
  \E k \in CreateIds :
    /\ creates[k].pc = "done"
    /\ IsNull(creates[k].size)
    /\ ~IsNull(attachments[Val(creates[k].attachmentId)].checksum)
    /\ ~IsNull(attachments[Val(creates[k].attachmentId)].size)

\* C5: a step in which a call fails changes no row, the row the failing call
\* read is still what it read, and a row changes only in the step in which the
\* call bound to it returns successfully.
C5_FailureKeepsRow ==
  [][ /\ \A c \in CallIds :
           (calls'[c].pc = "failed" /\ calls[c].pc # "failed") =>
             /\ attachments' = attachments
             /\ ~IsNull(calls'[c].attachment) =>
                  attachments'[Val(calls'[c].attachment).id] = Val(calls'[c].attachment)
      /\ \A id \in DOMAIN attachments :
           attachments'[id] # attachments[id] =>
             \E c \in CallIds : /\ calls[c].pc = "persist"
                                /\ calls'[c].pc = "done"
                                /\ Val(calls[c].attachment).id = id
    ]_vars

\* an upload failed after its file was renamed into place and the row is as issued
C5_Witness ==
  \E c \in CallIds :
    /\ FailedWith(c, "metadata-store-error")
    /\ ~IsNull(calls[c].attachment)
    /\ calls[c].storagePath \in DOMAIN files
    /\ RowOf(c) = Val(calls[c].attachment)
    /\ IsNull(RowOf(c).checksum)

OverMax(c) == Len(calls[c].delivered) > maxAttachmentBytes
OverDeclared(c) ==
  LET expected == expectedSizeOf(Val(calls[c].attachment))
  IN  ~IsNull(expected) /\ Len(calls[c].delivered) > Val(expected)

UploadDirOf(c) == Dirname(buildStoragePath(Val(calls[c].attachment).storageKey))

\* C8: a content length that is negative or not finite fails with
\* 'invalid-content-length' and one above the configured maximum with
\* 'attachment-too-large', with no byte read, the inbound stream destroyed and
\* no directory, temporary file or final file created.
C8_PreCheckFailsFast ==
  \A c \in CallIds :
    (~IsNull(calls[c].attachment) /\ ~IsNull(calls[c].contentLength)) =>
      LET len == Val(calls[c].contentLength)
          bad == ~len.finite \/ len.n < 0
          big == len.finite /\ len.n > maxAttachmentBytes
      IN  (bad \/ big) =>
            /\ FailedWith(c, IF bad THEN "invalid-content-length"
                                    ELSE "attachment-too-large")
            /\ calls[c].delivered = <<>>
            /\ calls[c].streamDestroyed
            /\ calls[c].tempPath = <<>>
            /\ UploadDirOf(c) \notin dirs
            /\ \A p \in DOMAIN files : UploadDirOf(c) \notin Prefixes(p)

\* a content length above the configured maximum was refused
C8_Witness ==
  \E c \in CallIds :
    /\ ~IsNull(calls[c].attachment)
    /\ calls[c].contentLength = Some(Finite(maxAttachmentBytes + 1))
    /\ FailedWith(c, "attachment-too-large")
    /\ calls[c].streamDestroyed

\* C9 as stated: for every declared size d of the row, 0 included, a content
\* length above d fails with 'attachment-size-exceeded' before any byte is read.
C9_EveryDeclaredSize ==
  \A c \in CallIds :
    (~IsNull(calls[c].attachment) /\ ~IsNull(calls[c].contentLength)
       /\ ~IsNull(Val(calls[c].attachment).size)) =>
      LET len == Val(calls[c].contentLength)
          d == Val(Val(calls[c].attachment).size)
      IN  (len.finite /\ len.n > d) =>
            FailedWith(c, "attachment-size-exceeded") /\ calls[c].delivered = <<>>

\* C9 amended: for every positive declared size d, a content length above d and
\* not above the configured maximum fails with 'attachment-size-exceeded' before
\* any byte is read.
C9_PositiveDeclaredSize ==
  \A c \in CallIds :
    (~IsNull(calls[c].attachment) /\ ~IsNull(calls[c].contentLength)
       /\ ~IsNull(Val(calls[c].attachment).size)) =>
      LET len == Val(calls[c].contentLength)
          d == Val(Val(calls[c].attachment).size)
      IN  (d > 0 /\ len.finite /\ len.n > d /\ len.n <= maxAttachmentBytes) =>
            /\ FailedWith(c, "attachment-size-exceeded")
            /\ calls[c].delivered = <<>>
            /\ calls[c].streamDestroyed

\* a content length above the positive declared size was refused
C9_Witness ==
  \E c \in CallIds :
    /\ ~IsNull(calls[c].attachment)
    /\ ~IsNull(calls[c].contentLength)
    /\ ~IsNull(Val(calls[c].attachment).size)
    /\ Val(Val(calls[c].attachment).size) > 0
    /\ Val(calls[c].contentLength).n > Val(Val(calls[c].attachment).size)
    /\ FailedWith(c, "attachment-size-exceeded")

\* C10: a successful upload stores the SHA-256 hex digest of the bytes the
\* stream delivered, in order, and their number as size, and those bytes are the
\* content of the file it renamed into place.
C10_RoundTrip ==
  \A c \in CallIds :
    /\ calls[c].pc \in {"persist", "done"} =>
         files[calls[c].storagePath] = calls[c].delivered
    /\ calls[c].pc = "done" =>
         /\ Val(calls[c].result).checksum = Some(HashDigestHex(calls[c].delivered))
         /\ Val(calls[c].result).size = Some(Len(calls[c].delivered))
         /\ RowOf(c) = Val(calls[c].result)

\* an upload of two different bytes, delivered in two chunks, was committed
C10_Witness ==
  \E c \in CallIds :
    /\ calls[c].pc = "done"
    /\ calls[c].delivered = <<0, 1>>
    /\ Val(calls[c].result).checksum = Some(<<"sha256", 0, 1>>)
    /\ Val(calls[c].result).size = Some(2)

\* the final storage path of a row
FinalPathOf(row) == buildStoragePath(row.storageKey)

\* C11: in every state, in the middle of an upload too, the file at the final
\* storage path of a row is absent or is the file some call renamed into place
\* after its stream had ended, holding all the bytes that stream delivered;
\* while a call is writing, its bytes are in its temporary file only.
C11_AtomicVisibility ==
  /\ \A id \in DOMAIN attachments :
       FinalPathOf(attachments[id]) \in DOMAIN files =>
         \E c \in CallIds :
           /\ calls[c].renamed /\ calls[c].streamEnded
           /\ calls[c].storagePath = FinalPathOf(attachments[id])
           /\ files[FinalPathOf(attachments[id])] = calls[c].delivered
  /\ \A c \in CallIds :
       calls[c].pc \in {"stream", "close", "rmfinal", "rename", "cleanup"} =>
         /\ calls[c].tempPath # calls[c].storagePath
         /\ calls[c].pc # "cleanup" => files[calls[c].tempPath] = calls[c].hash

\* bytes have been written for an upload that is still streaming, and nothing
\* is at the final path
C11_Witness ==
  \E c \in CallIds :
    /\ calls[c].pc = "stream"
    /\ calls[c].tempPath \in DOMAIN files
    /\ files[calls[c].tempPath] # <<>>
    /\ calls[c].storagePath \notin DOMAIN files

\* the createUpload calls that created a row
Created == {k \in DOMAIN creates : creates[k].pc \in {"created", "done"}}
CreatedRow(k) == attachments[Val(creates[k].attachmentId)]

IsPrefixOf(p, q) == Len(p) <= Len(q) /\ SubSeq(q, 1, Len(p)) = p

\* C12: two different rows resolve to final storage paths that are different
\* and of which neither is the other or a directory above the other.
C12_DistinctPaths ==
  \A j, k \in Created :
    j # k => /\ ~IsPrefixOf(FinalPathOf(CreatedRow(j)), FinalPathOf(CreatedRow(k)))
             /\ ~IsPrefixOf(FinalPathOf(CreatedRow(k)), FinalPathOf(CreatedRow(j)))

\* C13: the storage key of every row is sessionId "/" attachmentId "/" filename,
\* three segments, where filename is the sanitized name ("my-report.PDF" for
\* "  my report.PDF ", the placeholder when nothing is left).
C13_KeyShape ==
  \A k \in Created :
    LET row == CreatedRow(k) IN
    /\ row.storageKey = row.sessionId \o <<"/">> \o row.id \o <<"/">> \o row.filename
    /\ Len(Split(row.storageKey, "/")) = 3
    /\ creates[k].filename =
         Some(<<" ", " ", "m", "y", " ", "r", "e", "p", "o", "r", "t", ".", "P", "D", "F", " ">>)
         => row.filename = <<"m", "y", "-", "r", "e", "p", "o", "r", "t", ".", "P", "D", "F">>
    /\ creates[k].filename \in {None, Some(<<>>), Some(<<"/", "$">>)}
         => row.filename = <<"attachment">>

\* C14: the storage key of every row has no ".." segment and no empty segment,
\* and the sanitized filename has no character outside [A-Za-z0-9._-].
C14_TraversalSafe ==
  \A k \in Created :
    LET row == CreatedRow(k)
        segs == Split(row.storageKey, "/")
    IN  /\ \A i \in 1..Len(segs) : segs[i] # <<".", ".">> /\ segs[i] # <<>>
        /\ \A i \in 1..Len(row.filename) :
             row.filename[i] \in SafeChars \cup {"attachment"}
        /\ Len(segs) = 3 => segs[3] = row.filename

\* rows were created from the filenames ".." and "../b"
C14_Witness ==
  \E j, k \in Created :
    /\ creates[j].filename = Some(<<".", ".">>)
    /\ creates[k].filename = Some(<<".", ".", "/", "b">>)
    /\ CreatedRow(k).storageKey =
         CreatedRow(k).sessionId \o <<"/">> \o CreatedRow(k).id \o <<"/", ".", ".", "b">>

\* C15: when a call has returned successfully, the row has the digest of the
\* bytes the stream delivered as checksum, their count as size (whatever size
\* was declared), "file://" and the final path as url, the content type of the
\* request as mimeType or, without one, the mimeType it had; its other fields
\* are as they were, and the call returned this row.
C15_PersistStep ==
  \A c \in CallIds :
    calls[c].pc = "done" =>
      LET before == Val(calls[c].attachment)
          row == RowOf(c)
      IN  /\ row.checksum = Some(<<"sha256">> \o calls[c].delivered)
          /\ row.size = Some(Len(calls[c].delivered))
          /\ row.url = <<"file://">> \o Join(FinalPathOf(before), "/")
          /\ row.mimeType = IF IsNull(calls[c].contentType)
                            THEN before.mimeType
                            ELSE calls[c].contentType
          /\ row.id = before.id
          /\ row.sessionId = before.sessionId
          /\ row.storageKey = before.storageKey
          /\ row.filename = before.filename
          /\ calls[c].result = Some(row)

\* an upload of fewer bytes than declared, sent without a content type, committed
C15_Witness ==
  \E c \in CallIds :
    /\ calls[c].pc = "done"
    /\ Val(calls[c].attachment).size = Some(1)
    /\ RowOf(c).size = Some(0)
    /\ IsNull(calls[c].contentType)
    /\ RowOf(c).mimeType = Some("text/plain")

\* C16: the step in which createUpload creates its row adds exactly that one
\* row, under an id no row had, with a null checksum, changes no other row and
\* removes only tickets whose expiresAt is not after the current time; the step
\* in which it stores its ticket adds exactly one ticket, under a token the map
\* did not hold, bound to that row and expiring DEFAULT_TTL_MS (5 minutes) after
\* the time of the step, and changes no row and no other ticket.
C16_IssueEffect ==
  [][ \A k \in IssueIds :
        /\ (creates[k].pc = "idle" /\ creates'[k].pc = "created") =>
             LET id == Val(creates'[k].attachmentId)
             IN  /\ id \notin DOMAIN attachments
                 /\ DOMAIN attachments' = DOMAIN attachments \cup {id}
                 /\ IsNull(attachments'[id].checksum)
                 /\ \A j \in DOMAIN attachments : attachments'[j] = attachments[j]
                 /\ DOMAIN tokens' \subseteq DOMAIN tokens
                 /\ \A t \in DOMAIN tokens :
                      tokens[t].expiresAt > now =>
                        t \in DOMAIN tokens' /\ tokens'[t] = tokens[t]
        /\ (creates[k].pc = "created" /\ creates'[k].pc = "done") =>
             \E t \in IssueIds :
               /\ t \notin DOMAIN tokens
               /\ \A j \in IssueIds \ {k} :
                    creates[j].pc = "done" => t # TokenOf(j)
               /\ DOMAIN tokens' = DOMAIN tokens \cup {t}
               /\ tokens'[t] = [attachmentId |-> Val(creates[k].attachmentId),
                                expiresAt |-> now + 5 * 60 * 1000]
               /\ \A u \in DOMAIN tokens : tokens'[u] = tokens[u]
               /\ attachments' = attachments
    ]_vars

\* two tickets issued at different times are both in the map, the older one
\* unexpired
C16_Witness ==
  /\ \A k \in {1, 2} : creates[k].pc = "done" /\ TokenOf(k) \in DOMAIN tokens
  /\ tokens[TokenOf(1)].expiresAt > now
  /\ tokens[TokenOf(2)].expiresAt > tokens[TokenOf(1)].expiresAt
  /\ attachments[Val(creates[1].attachmentId)] # attachments[Val(creates[2].attachmentId)]

\* C17: a ticket in the map is never altered; a token enters the map only in
\* the step in which the createUpload call that drew it stores it, so a token
\* that has left the map never returns; a call resolves a ticket only in a step
\* that removes it from the map, and only when its deadline has not passed.
C17_TicketStateMachine ==
  [][ \A t \in CreateIds :
        /\ (t \in DOMAIN tokens /\ t \in DOMAIN tokens') => tokens'[t] = tokens[t]
        /\ (t \notin DOMAIN tokens /\ t \in DOMAIN tokens') =>
             creates[t].pc = "created" /\ creates'[t].pc = "done"
        /\ creates[t].pc = "done" => creates'[t].pc = "done"
        /\ \A c \in CallIds :
             (~Resolved(c) /\ ~IsNull(calls'[c].entry) /\ calls'[c].token = t) =>
               /\ t \in DOMAIN tokens
               /\ t \notin DOMAIN tokens'
               /\ Val(calls'[c].entry) = tokens[t]
               /\ tokens[t].expiresAt >= now
    ]_vars

\* a ticket expired and was dropped with no call having resolved it, and a call
\* made with its token afterwards was refused
C17_Witness ==
  \E t \in CreateIds :
    /\ creates[t].pc = "done"
    /\ t \notin DOMAIN tokens
    /\ \A c \in CallIds : calls[c].token = t => ~Resolved(c)
    /\ \E c \in CallIds : calls[c].token = t /\ InvalidTicket(c) /\ ~calls[c].sawEntry

\* the last instant the clock reaches
LastInstant == DEFAULT_TTL_MS + 1

\* C18: with the timer firing and time passing, a ticket whose deadline the
\* clock reaches and which no call consumes is eventually out of the map.
C18_EventualReclamation ==
  \A k \in IssueIds :
    (TokenOf(k) \in DOMAIN tokens /\ tokens[TokenOf(k)].expiresAt <= LastInstant)
      ~> (TokenOf(k) \notin DOMAIN tokens)

\* an expired ticket has been dropped while a younger one is kept
C18_Witness ==
  /\ creates[1].pc = "done" /\ TokenOf(1) \notin DOMAIN tokens
  /\ creates[2].pc = "done" /\ TokenOf(2) \in DOMAIN tokens
  /\ now >= creates[1].expiresAt[1]

\* the reply the route sends for a call that has returned
ReplyOf(c) == uploadReply(IF calls[c].pc = "done" THEN None ELSE calls[c].error)

\* the status the route is to answer with for each named error
StatusTable ==
  [m \in {"invalid-upload-token", "attachment-not-found", "invalid-content-length",
          "attachment-too-large", "attachment-size-exceeded"} |->
     CASE m = "invalid-upload-token" -> 404
       [] m = "attachment-not-found" -> 404
       [] m = "invalid-content-length" -> 400
       [] OTHER -> 413]

\* errors receiveUpload throws that carry no message the route names
UnnamedErrors ==
  {"metadata-store-error", "mkdir-error", "stream-error", "close-error",
   "rename-error"}

\* C20: the route answers a successful receiveUpload with 204 and no body, a
\* named error with its 4xx status (404, 404, 400, 413, 413) and any other
\* error with 500.
C20_RouteMapping ==
  /\ \A c \in CallIds :
       Returned(c) =>
         IF calls[c].pc = "done"
         THEN ReplyOf(c).code = 204 /\ IsNull(ReplyOf(c).body)
         ELSE IF Val(calls[c].error) \in DOMAIN StatusTable
         THEN ReplyOf(c).code = StatusTable[Val(calls[c].error)]
         ELSE ReplyOf(c).code = 500
  /\ \A m \in DOMAIN StatusTable : uploadReply(Some(m)).code = StatusTable[m]
  /\ \A m \in UnnamedErrors : uploadReply(Some(m)).code = 500

\* one upload was refused as too large and a second request for the same
\* ticket as invalid
C20_Witness ==
  \E c, d \in CallIds :
    /\ FailedWith(c, "attachment-too-large") /\ ReplyOf(c).code = 413
    /\ FailedWith(d, "invalid-upload-token") /\ ReplyOf(d).code = 404

\* errors of the environment of openAttachmentPath: the metadata store or the
\* file system does not answer
OpenEnvErrors == {Some("metadata-store-error"), Some("stat-error")}

\* a step of an openAttachmentPath call
OpenStep ==
  \/ Len(opens'.results) > Len(opens.results)
  \/ IsNull(opens.current) /\ ~IsNull(opens'.current)

\* C19: a call that ran with no other operation in between and was answered by
\* the store and the file system threw 'attachment-not-found' when no row has the
\* id, threw 'attachment-file-missing' when the row exists and nothing is at its
\* final path, and otherwise returned the row and that path; any two such calls
\* for one id made with no other operation in between have the same outcome; and
\* no step of a call changes the rows, the tickets, the files or the directories.
C19_OpenAttachmentPath ==
  /\ [](\A i \in 1..Len(opens.results) :
          LET o == opens.results[i] IN
          (o.clean /\ o.error \notin OpenEnvErrors) =>
            /\ IF o.id \notin DOMAIN attachments
               THEN o.error = Some("attachment-not-found")
               ELSE IF FinalPathOf(attachments[o.id]) \notin DOMAIN files \cup dirs
               THEN o.error = Some("attachment-file-missing")
               ELSE /\ IsNull(o.error)
                    /\ o.storagePath = FinalPathOf(attachments[o.id])
                    /\ o.attachment = Some(attachments[o.id])
            /\ \A j \in 1..Len(opens.results) :
                 LET q == opens.results[j] IN
                 (q.clean /\ q.error \notin OpenEnvErrors /\ q.id = o.id) => q = o)
  /\ [][OpenStep => UNCHANGED <<attachments, tokens, files, dirs>>]_vars

\* two calls in a row for a committed attachment both returned its path
C19_Witness ==
  /\ Len(opens.results) = 2
  /\ \A i \in {1, 2} :
       /\ opens.results[i].clean
       /\ opens.results[i].id = AttachmentIdOf(1)
       /\ IsNull(opens.results[i].error)
       /\ opens.results[i].storagePath \in DOMAIN files
  /\ AttachmentIdOf(1) \in DOMAIN attachments
  /\ ~IsNull(attachments[AttachmentIdOf(1)].checksum)

\* the errors of the size pre-check, the directory creation, the streaming, the
\* close and the rename
AbortErrors ==
  {Some("invalid-content-length"), Some("attachment-too-large"),
   Some("attachment-size-exceeded"), Some("mkdir-error"), Some("stream-error"),
   Some("close-error"), Some("rename-error")}

\* C21: when a call has failed at the size pre-check, the directory creation,
\* the streaming, the close or the rename, the inbound stream has been destroyed
\* and no file write stream of the call is open.
C21_StreamsDestroyedOnAbort ==
  \A c \in CallIds :
    (calls[c].pc = "failed" /\ ~IsNull(calls[c].attachment)
       /\ calls[c].error \in AbortErrors) =>
      /\ calls[c].streamDestroyed
      /\ ~calls[c].fileStreamOpen

\* C22: a call that committed wrote at most maxAttachmentBytes bytes, at most
\* the size declared for the row when one was declared, and at most the content
\* length of the request when one was given.
C22_CommittedSizeBounded ==
  \A c \in CallIds :
    calls[c].pc = "done" =>
      LET declared == Val(calls[c].attachment).size
          contentLength == calls[c].contentLength
      IN  /\ calls[c].written <= maxAttachmentBytes
          /\ ~IsNull(declared) => calls[c].written <= Val(declared)
          /\ ~IsNull(contentLength) => calls[c].written <= Val(contentLength).n

\* a step of the sweeper: the map changes and no createUpload call moves
SweepStep == tokens' # tokens /\ creates' = creates /\ calls' = calls

\* C23: a run of the sweeper removes exactly the tickets whose expiresAt is not
\* after the current time, leaves the others as they are, and changes no row,
\* no file and no directory.
C23_SweepFrame ==
  [][ SweepStep =>
        /\ DOMAIN tokens' = {t \in DOMAIN tokens : tokens[t].expiresAt > now}
        /\ \A t \in DOMAIN tokens' : tokens'[t] = tokens[t]
        /\ UNCHANGED <<attachments, files, dirs, now>>
    ]_vars

\* the ticket issued first is gone at its deadline, a ticket with a later
\* deadline is in the map, and both rows are as created
C23_Witness ==
  /\ creates[1].pc = "done" /\ creates[2].pc = "done"
  /\ now = Val(creates[1].expiresAt)
  /\ TokenOf(1) \notin DOMAIN tokens
  /\ TokenOf(2) \in DOMAIN tokens /\ tokens[TokenOf(2)].expiresAt > now
  /\ \A k \in {1, 2} : IsNull(attachments[Val(creates[k].attachmentId)].checksum)

\* C24: the path resolved from the storage key of every row has no ".."
\* segment and no empty segment, and has at least one segment below the storage
\* root.
C24_PathContained ==
  \A id \in DOMAIN attachments :
    LET p == FinalPathOf(attachments[id])
    IN  /\ \A i \in 1..Len(p) : p[i] # <<".", ".">> /\ p[i] # <<>>
        /\ Len(p) >= 1

\* C25: a call made at a time at which the sweeper would remove the ticket
\* (expiresAt <= now) does not resolve it, so the call ends the same way whether
\* or not the sweeper ran just before it.
C25_ConsumeSweepAgree ==
  [][ \A c \in CallIds :
        (calls[c].pc = "idle" /\ calls'[c].pc # "idle") =>
          LET t == calls'[c].token
          IN  (t \in DOMAIN tokens /\ t \notin DOMAIN pruneExpiredTokens(tokens, now))
                => IsNull(calls'[c].entry)
    ]_vars

\* the calls that got as far as opening their temporary file for the row id
Streamers(id) ==
  {c \in CallIds : /\ calls[c].tempPath # <<>>
                   /\ Val(calls[c].attachment).id = id}

\* C26: every ticket in the map refers to a row that exists; a createUpload
\* call that failed has stored no ticket; no two tickets issued refer to the
\* same row; and for each row at most one call ever reaches the streaming.
C26_TicketBinding ==
  /\ \A t \in DOMAIN tokens : tokens[t].attachmentId \in DOMAIN attachments
  /\ \A k \in IssueIds : creates[k].pc = "failed" => TokenOf(k) \notin DOMAIN tokens
  /\ \A j, k \in IssueIds :
       (j # k /\ creates[j].pc = "done" /\ creates[k].pc = "done") =>
         /\ creates[j].attachmentId # creates[k].attachmentId
         /\ (TokenOf(j) \in DOMAIN tokens /\ TokenOf(k) \in DOMAIN tokens) =>
              tokens[TokenOf(j)].attachmentId # tokens[TokenOf(k)].attachmentId
  /\ \A c \in CallIds :
       Resolved(c) =>
         Val(calls[c].entry).attachmentId = Val(creates[calls[c].token].attachmentId)
  /\ \A id \in DOMAIN attachments : Cardinality(Streamers(id)) <= 1

\* two uploads stream at once, each to the row of its own ticket
C26_Witness ==
  /\ calls[1].pc = "stream" /\ calls[2].pc = "stream"
  /\ Val(calls[1].attachment).id # Val(calls[2].attachment).id
  /\ Streamers(Val(calls[1].attachment).id) = {1}
  /\ Streamers(Val(calls[2].attachment).id) = {2}

\* the most bytes the loop accepts for the row of call c
WriteBound(c) ==
  LET expected == expectedSizeOf(Val(calls[c].attachment))
  IN  IF ~IsNull(expected) /\ Val(expected) < maxAttachmentBytes
      THEN Val(expected)
      ELSE maxAttachmentBytes

\* C27: at every point of every call that opened its temporary file, the bytes
\* hashed and handed to the file are a prefix of the bytes delivered, at most
\* min(maxAttachmentBytes, declared size when positive) of them; they are all
\* the bytes delivered while the bound is kept, and stop short of the chunk that
\* crosses it.
C27_BoundedWrites ==
  \A c \in CallIds :
    calls[c].tempPath # <<>> =>
      /\ IsPrefixOf(calls[c].hash, calls[c].delivered)
      /\ Len(calls[c].hash) <= WriteBound(c)
      /\ calls[c].tempPath \in DOMAIN files =>
           files[calls[c].tempPath] = calls[c].hash
      /\ Len(calls[c].delivered) <= WriteBound(c) => calls[c].hash = calls[c].delivered
      /\ Len(calls[c].delivered) > WriteBound(c) =>
           /\ calls[c].pc \in {"cleanup", "failed"}
           /\ calls[c].storagePath \notin DOMAIN files

\* a second chunk crossed a positive declared size below the maximum after the
\* first had been written
C27_Witness ==
  \E c \in CallIds :
    /\ calls[c].pc = "cleanup"
    /\ WriteBound(c) < maxAttachmentBytes
    /\ Len(calls[c].hash) = WriteBound(c)
    /\ Len(calls[c].delivered) > WriteBound(c)
    /\ files[calls[c].tempPath] = calls[c].hash
    /\ calls[c].hash # <<>>

\* C28: a file is at the final storage path of a row only if the row has its
\* checksum set.
C28_FileImpliesChecksum ==
  \A id \in DOMAIN attachments :
    FinalPathOf(attachments[id]) \in DOMAIN files =>
      ~IsNull(attachments[id].checksum)

\* C29: the bucket map never holds more than rateBucketMaxEntries entries.
C29_BucketCap == Len(rateBuckets) <= rateBucketMaxEntries

\* C30: in the window that starts at the first request of a key, at most
\* rateLimitMax requests of that key have been let through.
C30_RateLimitEnforced ==
  \A key \in DOMAIN admitted : admitted[key].count <= rateLimitMax

====
